---------------------------- MODULE Spec2Model ----------------------------
(***************************************************************************)
(* A model of the llm-recommender backend:                                 *)
(*   src/backend/inference.py  LLMRecommenderEngine, generate_response     *)
(*   src/backend/main.py       get_ollama_response, search_local_models,   *)
(*                             the routing helpers and chat_recommender    *)
(*                                                                         *)
(* Texts are TLA+ strings; substring tests, lower(), strip() and split()   *)
(* are computed character by character as Python computes them.  Scores    *)
(* of the recommendation table are kept in tenths (9.8 is 98).             *)
(***************************************************************************)
EXTENDS Integers, Sequences, FiniteSets, TLC

VARIABLES
    disk,      \* the chat history file data/chat_history.json
    req,       \* one record per turn: the locals of chat_recommender
    running,   \* the turn whose handler the event loop is executing, or 0
    llm_df,    \* the catalog read from llm_data.csv at import (no rows: not found)
    fnIn,      \* a direct call of one function: its arguments
    fnOut      \* a direct call of one function: what it returned or raised

vars == <<disk, req, running, llm_df, fnIn, fnOut>>

None == "<none>"

-----------------------------------------------------------------------------
(* Python string operations *)

RECURSIVE SeqSum(_)
SeqSum(s) == IF s = <<>> THEN 0 ELSE Head(s) + SeqSum(Tail(s))

CharAt(s, i) == SubSeq(s, i, i)

\* `k in t` for strings
Contains(t, k) ==
    \E i \in 1..(Len(t) - Len(k) + 1) : SubSeq(t, i, i + Len(k) - 1) = k

ContainsAny(t, ks) == \E j \in 1..Len(ks) : Contains(t, ks[j])

LowerChar(c) ==
    CASE c = "A" -> "a" [] c = "B" -> "b" [] c = "C" -> "c" [] c = "D" -> "d"
      [] c = "E" -> "e" [] c = "F" -> "f" [] c = "G" -> "g" [] c = "H" -> "h"
      [] c = "I" -> "i" [] c = "J" -> "j" [] c = "K" -> "k" [] c = "L" -> "l"
      [] c = "M" -> "m" [] c = "N" -> "n" [] c = "O" -> "o" [] c = "P" -> "p"
      [] c = "Q" -> "q" [] c = "R" -> "r" [] c = "S" -> "s" [] c = "T" -> "t"
      [] c = "U" -> "u" [] c = "V" -> "v" [] c = "W" -> "w" [] c = "X" -> "x"
      [] c = "Y" -> "y" [] c = "Z" -> "z" [] OTHER -> c

RECURSIVE Lower(_)
Lower(s) == IF Len(s) = 0 THEN ""
            ELSE LowerChar(CharAt(s, 1)) \o Lower(SubSeq(s, 2, Len(s)))

IsSpace(c) == c \in {" ", "\t", "\n"}

RECURSIVE LStrip(_)
LStrip(s) == IF Len(s) > 0 /\ IsSpace(CharAt(s, 1))
             THEN LStrip(SubSeq(s, 2, Len(s))) ELSE s

RECURSIVE RStrip(_)
RStrip(s) == IF Len(s) > 0 /\ IsSpace(CharAt(s, Len(s)))
             THEN RStrip(SubSeq(s, 1, Len(s) - 1)) ELSE s

Strip(s) == RStrip(LStrip(s))

\* str.split(): the maximal runs of non-whitespace characters, in order
RECURSIVE SplitFrom(_, _, _)
SplitFrom(s, i, cur) ==
    IF i > Len(s) THEN (IF cur = "" THEN <<>> ELSE <<cur>>)
    ELSE IF IsSpace(CharAt(s, i))
         THEN (IF cur = "" THEN <<>> ELSE <<cur>>) \o SplitFrom(s, i + 1, "")
         ELSE SplitFrom(s, i + 1, cur \o CharAt(s, i))

Split(s) == SplitFrom(s, 1, "")

-----------------------------------------------------------------------------
(* inference.py: LLMRecommenderEngine *)

Entry(n, s, c, l, o) == [name |-> n, score |-> s, cost |-> c, license |-> l, source |-> o]

\* the tables of load_model_database, each in its insertion order
model_database ==
    [ text_generation |->
        << Entry("gpt-4o", 95, "high", "commercial", "OpenAI"),
           Entry("claude-3-sonnet", 92, "high", "commercial", "Anthropic"),
           Entry("llama-3-70b", 88, "medium", "open", "Meta"),
           Entry("mistral-7b", 85, "low", "apache-2.0", "Mistral") >>,
      code_generation |->
        << Entry("claude-3-sonnet", 98, "high", "commercial", "Anthropic"),
           Entry("gpt-4o", 93, "high", "commercial", "OpenAI"),
           Entry("codellama-34b", 89, "medium", "open", "Meta") >>,
      question_answering |->
        << Entry("gpt-4o", 94, "high", "commercial", "OpenAI"),
           Entry("claude-3-haiku", 91, "medium", "commercial", "Anthropic"),
           Entry("gemma-7b", 83, "low", "apache-2.0", "Google") >> ]

\* use_case_keywords, in the dict's insertion order
use_case_keywords ==
    << [category |-> "text_generation",
        keywords |-> <<"generate", "write", "create", "content", "article", "story">>],
       [category |-> "code_generation",
        keywords |-> <<"code", "program", "develop", "script", "function", "debug">>],
       [category |-> "question_answering",
        keywords |-> <<"answer", "explain", "help", "question", "support", "faq">>],
       [category |-> "summarization",
        keywords |-> <<"summarize", "summary", "brief", "overview", "digest">>],
       [category |-> "translation",
        keywords |-> <<"translate", "language", "convert", "localize">>] >>

\* sum(1 for keyword in keywords if keyword in user_lower)
KeywordScore(keywords, user_lower) ==
    SeqSum([j \in 1..Len(keywords) |-> IF Contains(user_lower, keywords[j]) THEN 1 ELSE 0])

UseCaseScores(user_input) ==
    LET user_lower == Lower(user_input)
    IN  [i \in 1..Len(use_case_keywords) |->
            KeywordScore(use_case_keywords[i].keywords, user_lower)]

\* a maximum search that keeps the last key of the largest value (`>=` for `>`)
MaxKeyLast(scores) ==
    LET best == CHOOSE i \in 1..Len(scores) :
                    /\ \A j \in 1..Len(scores) : scores[j] <= scores[i]
                    /\ \A j \in (i + 1)..Len(scores) : scores[j] < scores[i]
    IN  use_case_keywords[best].category

\* max(scores, key=scores.get): the first key, in insertion order, of the largest value
MaxKey(scores) ==
    LET best == CHOOSE i \in 1..Len(scores) :
                    /\ \A j \in 1..Len(scores) : scores[j] <= scores[i]
                    /\ \A j \in 1..(i - 1) : scores[j] < scores[i]
    IN  use_case_keywords[best].category

MaxScore(scores) == CHOOSE m \in {scores[i] : i \in 1..Len(scores)} :
                        \A j \in 1..Len(scores) : scores[j] <= m

analyze_use_case(user_input) ==
    LET scores == UseCaseScores(user_input)
    IN  IF MaxScore(scores) > 0 THEN MaxKey(scores) ELSE "text_generation"

\* self.model_database.get(use_case, self.model_database['text_generation'])
ModelsFor(use_case) ==
    IF use_case \in DOMAIN model_database
    THEN model_database[use_case]
    ELSE model_database["text_generation"]

RemoveAt(s, i) == SubSeq(s, 1, i - 1) \o SubSeq(s, i + 1, Len(s))

\* the sort without reverse=True
RECURSIVE SortedByScoreAsc(_)
SortedByScoreAsc(s) ==
    IF s = <<>> THEN <<>>
    ELSE LET i == CHOOSE k \in 1..Len(s) :
                      /\ \A j \in 1..Len(s) : s[j].score >= s[k].score
                      /\ \A j \in 1..(k - 1) : s[j].score > s[k].score
         IN  <<s[i]>> \o SortedByScoreAsc(RemoveAt(s, i))

\* sorted(..., key=score, reverse=True): descending, equal scores in their original order
RECURSIVE SortedByScoreDesc(_)
SortedByScoreDesc(s) ==
    IF s = <<>> THEN <<>>
    ELSE LET i == CHOOSE k \in 1..Len(s) :
                      /\ \A j \in 1..Len(s) : s[j].score <= s[k].score
                      /\ \A j \in 1..(k - 1) : s[j].score < s[k].score
         IN  <<s[i]>> \o SortedByScoreDesc(RemoveAt(s, i))

TopN(s, n) == SubSeq(s, 1, IF Len(s) < n THEN Len(s) ELSE n)

TopCount == 3

\* generate_reasoning: which template is used, and the cost sentence
generate_reasoning(details, use_case) ==
    [ template |-> IF use_case \in {"text_generation", "code_generation", "question_answering"}
                   THEN use_case ELSE "generic",
      cost_reason |-> CASE details.cost = "low" -> "Budget-friendly option"
                        [] details.cost = "medium" -> "Balanced cost-performance ratio"
                        [] details.cost = "high" -> "Premium option with advanced features"
                        [] OTHER -> "" ]

\* generate_links: which documentation and pricing site is linked
generate_links(source) ==
    [ documentation |-> IF source \in {"OpenAI", "Anthropic", "Meta", "Mistral", "Google"}
                        THEN source ELSE "huggingface-search",
      pricing |-> IF source \in {"OpenAI", "Anthropic"} THEN source ELSE "huggingface" ]

recommend_models(user_input) ==
    LET use_case == analyze_use_case(user_input)
        sorted_models == TopN(SortedByScoreDesc(ModelsFor(use_case)), TopCount)
    IN  [i \in 1..Len(sorted_models) |->
            [ name |-> sorted_models[i].name,
              score |-> sorted_models[i].score,
              cost |-> sorted_models[i].cost,
              license |-> sorted_models[i].license,
              source |-> sorted_models[i].source,
              use_case |-> use_case,
              reasoning |-> generate_reasoning(sorted_models[i], use_case),
              links |-> generate_links(sorted_models[i].source) ]]

NoRecommendationsMsg == "I couldn't find suitable model recommendations for your use case. Please provide more specific requirements."

\* generate_response: the no-recommendations message, or one block per recommendation
generate_response(prompt) ==
    LET recommendations == recommend_models(prompt)
    IN  IF recommendations = <<>>
        THEN [kind |-> "message", text |-> NoRecommendationsMsg, blocks |-> <<>>]
        ELSE [kind |-> "blocks", text |-> "",
              blocks |-> [i \in 1..Len(recommendations) |->
                             [rank |-> i, name |-> recommendations[i].name,
                              score |-> recommendations[i].score]]]

-----------------------------------------------------------------------------
(* main.py: get_ollama_response *)

DefaultRetries == 2

ConnectionTroubleMsg == "I'm having trouble connecting to the AI model right now. Please try again in a moment."
NoResponseMsg == "The AI model failed to respond after several attempts."

\* What one requests.post + raise_for_status + json().get("response", "") can do:
\*   fail       a requests.exceptions.RequestException (connection, timeout, HTTP status)
\*   ok         a response whose "response" field is body (missing field: "")
\*   malformed  a response whose "response" field is not a string: .strip() raises
\*              an exception that is not a RequestException
TransportBodies == {"", "  ", " Sure, here is an answer. \n"}
TransportOutcomes ==
    {[kind |-> "fail", body |-> ""], [kind |-> "malformed", body |-> ""]}
        \cup {[kind |-> "ok", body |-> b] : b \in TransportBodies}

Returned(text, posts, sleeps) == [kind |-> "return", text |-> text, posts |-> posts, sleeps |-> sleeps]
Raised(posts, sleeps) == [kind |-> "raise", text |-> "", posts |-> posts, sleeps |-> sleeps]

\* the retry test off by one: `if attempt < retries`
IsLastAttemptOffByOne(attempt, retries) == ~(attempt < retries)

\* `except ... : if attempt < retries - 1: time.sleep(delay) else: return ...`
IsLastAttempt(attempt, retries) == ~(attempt < retries - 1)

\* the body of `for attempt in range(retries)`, from iteration `attempt` on;
\* outs[attempt + 1] is what the transport does on that iteration
RECURSIVE OllamaLoop(_, _, _, _)
OllamaLoop(retries, outs, attempt, sleeps) ==
    IF attempt >= retries
    THEN Returned(NoResponseMsg, attempt, sleeps)
    ELSE LET out == outs[attempt + 1]
         IN  CASE out.kind = "ok" -> Returned(Strip(out.body), attempt + 1, sleeps)
               [] out.kind = "malformed" -> Raised(attempt + 1, sleeps)
               [] OTHER ->
                    IF IsLastAttempt(attempt, retries)
                    THEN Returned(ConnectionTroubleMsg, attempt + 1, sleeps)
                    ELSE OllamaLoop(retries, outs, attempt + 1, sleeps + 1)

get_ollama_response(retries, outs) == OllamaLoop(retries, outs, 0, 0)

-----------------------------------------------------------------------------
(* main.py: search_local_models *)

CatalogMissingMsg == "I cannot search for models because my database file (llm_data.csv) is missing."
NoMatchMsg == "I searched my database but couldn't find models matching your specific criteria. Try using keywords like 'coding', 'chat', 'writing', or 'analysis' for better results."
RecommendationsHeader == "Based on your request, here are my top LLM recommendations:\n\n"
RecommendationsFooter == "Need more specific recommendations? Feel free to tell me more about your exact use case!"

HeadCount == 3

\* [word for word in prompt.lower().split() if len(word) > 2]
SearchKeywords(prompt) == SelectSeq(Split(Lower(prompt)), LAMBDA w : Len(w) > 2)

\* The pattern '(?i)(k1|k2|...)' over the query alphabet of this model (letters,
\* digits, "-", and "("): an unbalanced "(" makes re.compile raise; otherwise
\* each alternative is a literal, and the empty alternation "()" matches any string.
PatternRaises(keywords) == \E j \in 1..Len(keywords) : Contains(keywords[j], "(")

PatternMatches(keywords, tags) ==
    \/ keywords = <<>>
    \/ ContainsAny(Lower(tags), keywords)

\* llm_df[llm_df['use_case_tags'].str.contains(pattern, na=False, regex=True)]:
\* the indexes of the selected rows, in row order (a missing tag is None)
RECURSIVE SelectRows(_, _, _)
SelectRows(df, keywords, i) ==
    IF i > Len(df) THEN <<>>
    ELSE (IF df[i].use_case_tags # None /\ PatternMatches(keywords, df[i].use_case_tags)
          THEN <<i>> ELSE <<>>) \o SelectRows(df, keywords, i + 1)

RECURSIVE RenderRows(_, _, _)
RenderRows(df, rows, i) ==
    IF i > Len(rows) THEN ""
    ELSE "### " \o df[rows[i]].model_name \o "\n" \o RenderRows(df, rows, i + 1)

\* df is llm_df, the catalog read at import (no rows when llm_data.csv was not found)
search_local_models(df, prompt) ==
    IF df = <<>>
    THEN [kind |-> "return", text |-> CatalogMissingMsg, selected |-> <<>>, shown |-> <<>>]
    ELSE LET keywords == SearchKeywords(prompt)
         IN  IF PatternRaises(keywords)
             THEN [kind |-> "raise", text |-> "", selected |-> <<>>, shown |-> <<>>]
             ELSE LET recommended_models == SelectRows(df, keywords, 1)
                      head == TopN(recommended_models, HeadCount)
                  IN  IF recommended_models # <<>>
                      THEN [kind |-> "return",
                            text |-> RecommendationsHeader \o RenderRows(df, head, 1)
                                        \o RecommendationsFooter,
                            selected |-> recommended_models, shown |-> head]
                      ELSE [kind |-> "return", text |-> NoMatchMsg,
                            selected |-> <<>>, shown |-> <<>>]

-----------------------------------------------------------------------------
(* main.py: the routing helpers *)

strong_indicators ==
    <<"recommend llm", "suggest llm", "best llm", "which llm", "recommend model",
      "suggest model", "best model", "which model", "llm for", "model for">>
recommendation_words == <<"recommend", "suggest", "best", "top", "good">>
model_words == <<"llm", "model", "language model">>
general_questions == <<"what is llm", "what are llm", "explain llm", "define llm">>

\* the exclusion list tested before the strong indicators
ExclusionFirst(prompt_lower) ==
    /\ ~ContainsAny(prompt_lower, general_questions)
    /\ \/ ContainsAny(prompt_lower, strong_indicators)
       \/ /\ ContainsAny(prompt_lower, recommendation_words)
          /\ ContainsAny(prompt_lower, model_words)

is_llm_recommendation_request(prompt_lower) ==
    IF ContainsAny(prompt_lower, strong_indicators) THEN TRUE
    ELSE LET has_recommendation == ContainsAny(prompt_lower, recommendation_words)
             has_model == ContainsAny(prompt_lower, model_words)
         IN  IF has_recommendation /\ has_model
             THEN ~ContainsAny(prompt_lower, general_questions)
             ELSE FALSE

web_search_indicators ==
    <<"current", "latest", "recent", "today", "now", "news", "update", "status", "trending">>
complex_indicators == <<"explain", "tell me about", "what is", "how does", "why does">>

ComplexWordCount == 4

should_use_web_search(prompt_lower) ==
    IF ContainsAny(prompt_lower, web_search_indicators) THEN TRUE
    ELSE Len(Split(prompt_lower)) > ComplexWordCount
            /\ ContainsAny(prompt_lower, complex_indicators)

LlmAnswer == "**LLM** stands for **Large Language Model** - these are AI systems trained on vast amounts of text data to understand and generate human-like text."
AiAnswer == "**Artificial Intelligence (AI)** is technology that enables machines to simulate human intelligence."
IdentityAnswer == "Hello! I'm an AI Assistant from Caze Labs. I'm designed to be helpful, conversational, and intelligent."
GreetingAnswer == "Hello! How can I help you today?"
ThanksAnswer == "You're very welcome! Is there anything else I can help with?"
GoodbyeAnswer == "Goodbye! Have a great day."

\* handle_ai_education_question: which of its three branches answers
EducationBranch(prompt) ==
    LET prompt_lower == Lower(prompt)
    IN  IF Contains(prompt_lower, "llm") THEN "llm"
        ELSE IF ContainsAny(prompt_lower,
                    <<"what is ai", "artificial intelligence", "how does ai work">>)
             THEN "ai"
             ELSE "inference"

\* handle_natural_conversation: the if/elif chain, first match wins
ConversationBranch(prompt_lower) ==
    IF ContainsAny(prompt_lower, <<"who are you", "what are you">>) THEN "identity"
    ELSE IF ContainsAny(prompt_lower, <<"hi", "hello", "hey">>) THEN "greeting"
    ELSE IF ContainsAny(prompt_lower, <<"thank", "thanks">>) THEN "thanks"
    ELSE IF ContainsAny(prompt_lower, <<"bye", "goodbye">>) THEN "goodbye"
    ELSE IF ContainsAny(prompt_lower, <<"what is llm", "what is ai">>) THEN "education"
    ELSE IF should_use_web_search(prompt_lower) THEN "web_search"
    ELSE "direct"

-----------------------------------------------------------------------------
(* main.py: the strategies chat_recommender dispatches to *)

GenericApology == "I encountered an error while processing your request. Please try again!"
DefaultHelp == "I'm here to help! Feel free to ask me anything."
UnsupportedFilePrefix == "Unsupported file type: "
DocumentErrorPrefix == "I'm sorry, I encountered an error while processing the file: "
ImageErrorPrefix == "Error processing image: "

image_extensions == {".png", ".jpg", ".jpeg", ".gif", ".bmp", ".webp"}
text_extensions == {".txt", ".md", ".py", ".json", ".csv"}
rich_extensions == {".pdf", ".docx", ".pptx"}

LastIndexOf(s, c) ==
    LET hits == {i \in 1..Len(s) : CharAt(s, i) = c}
    IN  IF hits = {} THEN 0 ELSE CHOOSE i \in hits : \A j \in hits : j <= i

\* os.path.splitext(p)[1]: from the last dot of the last path component on,
\* unless that component has only dots before it
SplitExt(p) ==
    LET sepIndex == LastIndexOf(p, "/")
        dotIndex == LastIndexOf(p, ".")
    IN  IF dotIndex > sepIndex
           /\ \E i \in (sepIndex + 1)..(dotIndex - 1) : CharAt(p, i) # "."
        THEN SubSeq(p, dotIndex, Len(p))
        ELSE ""

\* os.path.join(UPLOAD_DIR, f"{uuid.uuid4()}_{file.filename}")
UploadPath(turn, filename) == "uploads/" \o ToString(turn) \o "_" \o filename

\* what get_ollama_response can return or raise with its default retries
OllamaResults ==
    {get_ollama_response(DefaultRetries, outs) :
        outs \in [1..DefaultRetries -> TransportOutcomes]}

Reply(text) == [kind |-> "return", text |-> text]
Raise == [kind |-> "raise", text |-> ""]

\* describe_image: every exception (unreadable file, inference raising) becomes a reply
describe_image_results ==
    {Reply(ImageErrorPrefix \o "unreadable")}
        \cup {IF o.kind = "raise" THEN Reply(ImageErrorPrefix \o "inference")
              ELSE Reply(o.text) : o \in OllamaResults}

\* process_document: unsupported extension, extraction error, or the inference reply
process_document_results(file_path) ==
    LET file_extension == Lower(SplitExt(file_path))
    IN  IF file_extension \in text_extensions \cup rich_extensions
        THEN {Reply(DocumentErrorPrefix \o "extraction")}
                \cup {IF o.kind = "raise" THEN Reply(DocumentErrorPrefix \o "inference")
                      ELSE Reply(o.text) : o \in OllamaResults}
        ELSE {Reply(UnsupportedFilePrefix \o "'" \o file_extension \o "'")}

\* handle_natural_conversation: the canned reply, or what inference returns or raises
\* (perform_web_search never raises; its text only goes into the inference prompt)
handle_natural_conversation_results(prompt, prompt_lower) ==
    LET branch == ConversationBranch(prompt_lower)
        inference == {[kind |-> o.kind, text |-> o.text] : o \in OllamaResults}
    IN  CASE branch = "identity" -> {Reply(IdentityAnswer)}
          [] branch = "greeting" -> {Reply(GreetingAnswer)}
          [] branch = "thanks" -> {Reply(ThanksAnswer)}
          [] branch = "goodbye" -> {Reply(GoodbyeAnswer)}
          [] branch = "education" ->
                (CASE EducationBranch(prompt) = "llm" -> {Reply(LlmAnswer)}
                   [] EducationBranch(prompt) = "ai" -> {Reply(AiAnswer)}
                   [] OTHER -> inference)
          [] OTHER -> inference

\* the text tested before the attachment
RouteTextFirst(file_path, prompt_lower) ==
    IF is_llm_recommendation_request(prompt_lower) THEN "RecommendationSearch"
    ELSE IF file_path = None THEN "NaturalConversation"
    ELSE IF Lower(SplitExt(file_path)) \in image_extensions
         THEN "ImageAnalysis" ELSE "DocumentAnalysis"

\* the branch of the if/elif chain of chat_recommender's try block
Route(file_path, prompt_lower) ==
    IF file_path # None
    THEN (IF Lower(SplitExt(file_path)) \in image_extensions
          THEN "ImageAnalysis" ELSE "DocumentAnalysis")
    ELSE IF is_llm_recommendation_request(prompt_lower)
         THEN "RecommendationSearch"
         ELSE "NaturalConversation"

\* what the dispatched strategy returns or raises
StrategyResults(df, file_path, prompt) ==
    LET prompt_lower == Strip(Lower(prompt))
        route == Route(file_path, prompt_lower)
    IN  CASE route = "ImageAnalysis" -> describe_image_results
          [] route = "DocumentAnalysis" -> process_document_results(file_path)
          [] route = "RecommendationSearch" ->
                LET found == search_local_models(df, prompt)
                IN  {[kind |-> found.kind, text |-> found.text]}
          [] OTHER -> handle_natural_conversation_results(prompt, prompt_lower)

\* the empty-reply default left out
FinalResponseNoDefault(result) ==
    IF result.kind = "raise" THEN GenericApology ELSE result.text

\* `except Exception` around the dispatch, then the empty-reply default
FinalResponse(result) ==
    LET final_response == IF result.kind = "raise" THEN GenericApology ELSE result.text
    IN  IF final_response = "" \/ Strip(final_response) = ""
        THEN DefaultHelp ELSE final_response

-----------------------------------------------------------------------------
(* main.py: load_json_data, save_json_data and the chat_recommender handler *)

MaxTurns == 2
Turns == 1..MaxTurns
Users == {"default_user", "alice"}

Msg(turn, role) == [id |-> turn, role |-> role]
EmptyHistory == [u \in Users |-> <<>>]
NoFile == [kind |-> "absent", data |-> EmptyHistory]

\* load_json_data: {} when the file is absent, cannot be read, or does not decode
load_json_data(file, readFails) ==
    IF file.kind = "absent" THEN EmptyHistory
    ELSE IF readFails \/ file.kind = "corrupt" THEN EmptyHistory
    ELSE file.data

\* save_json_data: open(filepath, 'w') truncates, json.dump writes; an IOError is
\* printed and swallowed. outcome is "ok", "open_fails" (the file is untouched) or
\* "write_fails" (the file is left truncated or partly written)
save_json_data(data, file, outcome) ==
    CASE outcome = "ok" -> [kind |-> "valid", data |-> data]
      [] outcome = "open_fails" -> file
      [] OTHER -> [kind |-> "corrupt", data |-> EmptyHistory]

SaveOutcomes == {"ok", "open_fails", "write_fails"}

\* `chat_history[user_id] = [msg]` in place of setdefault(...).append
AppendMsgFresh(chat_history, user_id, msg) ==
    [chat_history EXCEPT ![user_id] = <<msg>>]

\* chat_history.setdefault(user_id, []).append(msg)
AppendMsg(chat_history, user_id, msg) ==
    [chat_history EXCEPT ![user_id] = Append(@, msg)]

\* chat_recommender is `async def` and contains no await: once the event loop has
\* entered the handler it runs to its return before any other handler runs
Awaits(step) == FALSE

\* the conversation a reader of the history file gets for a user
Held(file, user_id) == load_json_data(file, FALSE)[user_id]

Prompts ==
    { "recommend a model for coding", "Which LLM is best", "good language model",
      "What is LLM for beginners", "explain llm top picks",
      "best model (fast", "good model xyz",
      "what is llm", "What is AI", "how does ai work", "artificial intelligence",
      "hello what is llm", "thanks, what is ai", "what is ai thinking",
      "who are you", "hi", "bye", "latest news",
      "please explain how transformers work", "tell a joke", "", "   " }
Filenames ==
    { "photo.PNG", "pic.jpeg", "anim.gif", "shot.webp",
      "report.pdf", "archive.tar.gz", "README", "scan.png.docx" }
FilePrompts == {"recommend a model for coding", "hi", "latest news"}

\* the (prompt, file) pairs a turn is submitted with
TurnInputs == (Prompts \X {None}) \cup (FilePrompts \X Filenames)

\* one input for each branch of the dispatch and each way a strategy can fail
CoreInputs ==
    { <<"recommend a model for coding", None>>, <<"best model (fast", None>>,
      <<"good model xyz", None>>, <<"hi", None>>, <<"what is llm", None>>,
      <<"latest news", None>>, <<"tell a joke", None>>,
      <<"hi", "photo.PNG">>, <<"hi", "report.pdf">>, <<"hi", "archive.tar.gz">> }

SampleCatalog ==
    << [model_name |-> "CodeLlama", use_case_tags |-> "Coding, Programming"],
       [model_name |-> "Mistral", use_case_tags |-> "chat, writing"],
       [model_name |-> "Phi-3", use_case_tags |-> None],
       [model_name |-> "Llama-3", use_case_tags |-> "Chat, Coding, Analysis"],
       [model_name |-> "DeepSeek-Coder", use_case_tags |-> "coding"],
       [model_name |-> "Gemma", use_case_tags |-> "Summarization" ] >>

IdleReq ==
    [ pc |-> "idle", user_id |-> None, prompt |-> "", filename |-> None,
      file_path |-> None,
      chat_history |-> EmptyHistory, route |-> None, branch |-> None,
      result |-> Reply(""), final_response |-> "", returned |-> <<>>,
      prior |-> <<>>, loaded |-> <<>>, overlap |-> {} ]

NoCall == [fn |-> None]

HandlerInit ==
    /\ disk = NoFile
    /\ req = [r \in Turns |-> IdleReq]
    /\ running = 0
    /\ llm_df \in {<<>>, SampleCatalog}
    /\ fnIn = NoCall
    /\ fnOut = NoCall

\* a turn is submitted for a user; its handler has not started
Arrive(r) ==
    /\ req[r].pc = "idle"
    /\ \A q \in 1..(r - 1) : req[q].pc # "idle"
    /\ \E u \in Users : req' = [req EXCEPT ![r].pc = "pending", ![r].user_id = u]
    /\ UNCHANGED <<disk, running, llm_df, fnIn, fnOut>>

\* lines 270-282: load the history, name the upload, append the user message
Begin(r, inputs) ==
    /\ running = 0
    /\ req[r].pc = "pending"
    /\ \E input \in inputs, readFails \in BOOLEAN :
         LET user_id == req[r].user_id
             chat_history == load_json_data(disk, readFails)
         IN  /\ readFails => disk.kind # "absent"
             /\ req' = [req EXCEPT
                    ![r].pc = "begun",
                    ![r].prompt = input[1],
                    ![r].filename = input[2],
                    ![r].file_path = IF input[2] = None THEN None
                                     ELSE UploadPath(r, input[2]),
                    ![r].prior = Held(disk, user_id),
                    ![r].loaded = chat_history[user_id],
                    ![r].overlap = {q \in Turns \ {r} :
                                       req[q].pc \in {"pending", "begun", "replied", "done"}},
                    ![r].chat_history = AppendMsg(chat_history, user_id, Msg(r, "user"))]
    /\ running' = IF Awaits("begin") THEN 0 ELSE r
    /\ UNCHANGED <<disk, llm_df, fnIn, fnOut>>

\* lines 281-304: route, run the strategy, catch what it raises, default an empty reply
Dispatch(r) ==
    /\ running \in {0, r}
    /\ req[r].pc = "begun"
    /\ LET prompt_lower == Strip(Lower(req[r].prompt))
           route == Route(req[r].file_path, prompt_lower)
       IN  \E result \in StrategyResults(llm_df, req[r].file_path, req[r].prompt) :
             req' = [req EXCEPT
                    ![r].pc = "replied",
                    ![r].route = route,
                    ![r].branch = IF route = "NaturalConversation"
                                  THEN ConversationBranch(prompt_lower) ELSE None,
                    ![r].result = result,
                    ![r].final_response = FinalResponse(result)]
    /\ running' = IF Awaits("dispatch") THEN 0 ELSE r
    /\ UNCHANGED <<disk, llm_df, fnIn, fnOut>>

\* lines 306-310: append the bot message, save the history, return the conversation
Finish(r) ==
    /\ running \in {0, r}
    /\ req[r].pc = "replied"
    /\ \E outcome \in SaveOutcomes :
         LET user_id == req[r].user_id
             chat_history == AppendMsg(req[r].chat_history, user_id, Msg(r, "bot"))
         IN  /\ disk' = save_json_data(chat_history, disk, outcome)
             /\ req' = [req EXCEPT
                    ![r].pc = "done",
                    ![r].chat_history = chat_history,
                    ![r].returned = chat_history[user_id]]
    /\ running' = r
    /\ UNCHANGED <<llm_df, fnIn, fnOut>>

\* the response has been sent: the handler's locals are gone
Close(r) ==
    /\ running = r
    /\ req[r].pc = "done"
    /\ req' = [req EXCEPT ![r] = [IdleReq EXCEPT !.pc = "closed",
                                                 !.user_id = req[r].user_id,
                                                 !.overlap = req[r].overlap]]
    /\ running' = 0
    /\ UNCHANGED <<disk, llm_df, fnIn, fnOut>>

Next ==
    \E r \in Turns :
        Arrive(r) \/ Begin(r, CoreInputs) \/ Dispatch(r) \/ Finish(r) \/ Close(r)

Spec == HandlerInit /\ [][Next]_vars

\* the same handler over every input of TurnInputs, for the first RoutingTurns turns
RoutingTurns == 1

RoutingNext ==
    \E r \in 1..RoutingTurns :
        Arrive(r) \/ Begin(r, TurnInputs) \/ Dispatch(r) \/ Finish(r) \/ Close(r)

SpecRouting == HandlerInit /\ [][RoutingNext]_vars

-----------------------------------------------------------------------------
(* The functions on their own: arguments drawn in the initial state, one call *)

HandlerAtRest ==
    /\ disk = NoFile
    /\ req = [r \in Turns |-> IdleReq]
    /\ running = 0
    /\ llm_df = <<>>

EngineWords ==
    { "recommend", "model", "coding", "code", "Code", "write", "story", "explain",
      "summarize", "translate", "language", "debug", "help", "hello" }
EngineTexts ==
    {"recommend a model for coding", ""}
        \cup EngineWords
        \cup {a \o " " \o b : a \in EngineWords, b \in EngineWords}

EngineInit ==
    /\ HandlerAtRest
    /\ fnIn \in {[fn |-> "engine", text |-> t] : t \in EngineTexts}
    /\ fnOut = NoCall

EngineAnalyze ==
    /\ fnOut = NoCall
    /\ fnOut' = [fn |-> "analyze_use_case", value |-> analyze_use_case(fnIn.text)]
    /\ UNCHANGED <<disk, req, running, llm_df, fnIn>>

EngineRecommend ==
    /\ fnOut = NoCall
    /\ fnOut' = [fn |-> "recommend_models", value |-> recommend_models(fnIn.text)]
    /\ UNCHANGED <<disk, req, running, llm_df, fnIn>>

EngineGenerate ==
    /\ fnOut = NoCall
    /\ fnOut' = [fn |-> "generate_response", value |-> generate_response(fnIn.text)]
    /\ UNCHANGED <<disk, req, running, llm_df, fnIn>>

EngineNext == EngineAnalyze \/ EngineRecommend \/ EngineGenerate

SpecEngine == EngineInit /\ [][EngineNext]_vars

MaxRetries == 3

InferInit ==
    /\ HandlerAtRest
    /\ fnIn \in {[fn |-> "get_ollama_response", retries |-> n, outs |-> o] :
                    n \in (0 - 1)..MaxRetries,
                    o \in [1..MaxRetries -> TransportOutcomes]}
    /\ fnOut = NoCall

InferCall ==
    /\ fnOut = NoCall
    /\ fnOut' = [fn |-> "get_ollama_response",
                 value |-> get_ollama_response(fnIn.retries, fnIn.outs)]
    /\ UNCHANGED <<disk, req, running, llm_df, fnIn>>

InferNext == InferCall

SpecInfer == InferInit /\ [][InferNext]_vars

SearchWords ==
    {"coding", "CODING", "chat", "writing", "analysis", "cod", "ai", "ml", "an",
     "xyz", "best", "(fast"}
SearchQueries ==
    {"", "  "} \cup SearchWords \cup {a \o " " \o b : a \in SearchWords, b \in SearchWords}

TaglessCatalog == << [model_name |-> "Phi-3", use_case_tags |-> None] >>

SearchInit ==
    /\ HandlerAtRest
    /\ fnIn \in {[fn |-> "search_local_models", df |-> c, prompt |-> q] :
                    c \in {<<>>, SampleCatalog, TaglessCatalog}, q \in SearchQueries}
    /\ fnOut = NoCall

SearchCall ==
    /\ fnOut = NoCall
    /\ fnOut' = [fn |-> "search_local_models",
                 value |-> search_local_models(fnIn.df, fnIn.prompt)]
    /\ UNCHANGED <<disk, req, running, llm_df, fnIn>>

SearchNext == SearchCall

SpecSearch == SearchInit /\ [][SearchNext]_vars

-----------------------------------------------------------------------------
(* Properties *)

IsPrefix(a, b) == Len(a) <= Len(b) /\ SubSeq(b, 1, Len(a)) = a

Names(recs) == [i \in 1..Len(recs) |-> recs[i].name]
ScoresOf(recs) == [i \in 1..Len(recs) |-> recs[i].score]
StrictlyDescending(recs) ==
    \A i \in 1..(Len(recs) - 1) : recs[i].score > recs[i + 1].score
AllOfUseCase(recs, use_case) == \A i \in 1..Len(recs) : recs[i].use_case = use_case

Recommended == fnOut.fn = "recommend_models"
CodingText == "recommend a model for coding"

\* C1 as stated: recommend_models("recommend a model for coding") reports the
\* use case code_generation and returns that category's three entries in strictly
\* descending score order, claude-3-sonnet (9.8) first.
C1_AsStated ==
    (Recommended /\ fnIn.text = CodingText) =>
        /\ AllOfUseCase(fnOut.value, "code_generation")
        /\ Names(fnOut.value) = <<"claude-3-sonnet", "gpt-4o", "codellama-34b">>
        /\ ScoresOf(fnOut.value) = <<98, 93, 89>>
        /\ StrictlyDescending(fnOut.value)

\* C1 amended: "recommend a model for coding" contains no keyword of any category
\* ("coding" does not contain "code"), so the use case is the default
\* text_generation and the result is that category's top three in strictly
\* descending score order, gpt-4o (9.5) first; every text that is classified as
\* code_generation gets that category's three entries in strictly descending
\* score order, claude-3-sonnet (9.8) first.
C1_Amended ==
    Recommended =>
        /\ fnIn.text = CodingText =>
              /\ AllOfUseCase(fnOut.value, "text_generation")
              /\ Names(fnOut.value) = <<"gpt-4o", "claude-3-sonnet", "llama-3-70b">>
              /\ ScoresOf(fnOut.value) = <<95, 92, 88>>
              /\ StrictlyDescending(fnOut.value)
        /\ (fnOut.value # <<>> /\ fnOut.value[1].use_case = "code_generation") =>
              /\ AllOfUseCase(fnOut.value, "code_generation")
              /\ Names(fnOut.value) = <<"claude-3-sonnet", "gpt-4o", "codellama-34b">>
              /\ ScoresOf(fnOut.value) = <<98, 93, 89>>
              /\ StrictlyDescending(fnOut.value)

C1_Witness ==
    /\ Recommended
    /\ fnIn.text = CodingText
    /\ fnOut.value[1].name = "gpt-4o"

C1_WitnessCode ==
    /\ Recommended
    /\ fnIn.text = "recommend code"
    /\ fnOut.value[1].use_case = "code_generation"

-----------------------------------------------------------------------------
Dispatched(r) == req[r].pc \in {"replied", "done"}

ImageUploads == {"photo.PNG", "pic.jpeg", "anim.gif", "shot.webp"}

\* C2: a turn with an attachment is routed by the attachment alone: to
\* ImageAnalysis when its lowercased extension is one of .png .jpg .jpeg .gif .bmp
\* .webp, to DocumentAnalysis otherwise, whatever the text is.
C2_AttachmentRouting ==
    \A r \in Turns :
        (Dispatched(r) /\ req[r].filename # None) =>
            req[r].route = IF req[r].filename \in ImageUploads
                           THEN "ImageAnalysis" ELSE "DocumentAnalysis"

C2_Witness ==
    \E r \in Turns :
        /\ req[r].pc = "done"
        /\ req[r].filename = "photo.PNG"
        /\ req[r].prompt = "recommend a model for coding"
        /\ req[r].route = "ImageAnalysis"

-----------------------------------------------------------------------------
HasOneOf(t, phrases) == \E p \in phrases : Contains(t, p)

StrongPhrases ==
    {"recommend llm", "suggest llm", "best llm", "which llm", "recommend model",
     "suggest model", "best model", "which model", "llm for", "model for"}
RecommendWords == {"recommend", "suggest", "best", "top", "good"}
ModelWords == {"llm", "model", "language model"}
ExclusionPhrases == {"what is llm", "what are llm", "explain llm", "define llm"}

RecommendationIntent(t) ==
    \/ HasOneOf(t, StrongPhrases)
    \/ /\ HasOneOf(t, RecommendWords)
       /\ HasOneOf(t, ModelWords)
       /\ ~HasOneOf(t, ExclusionPhrases)

\* C3: a turn without attachment is routed to RecommendationSearch exactly when
\* its lowercased text contains a strong indicator, or contains a recommendation
\* word and a model word and no exclusion phrase.
C3_RecommendationRouting ==
    \A r \in Turns :
        (Dispatched(r) /\ req[r].filename = None) =>
            ((req[r].route = "RecommendationSearch")
                <=> RecommendationIntent(Lower(req[r].prompt)))

C3_Witness ==
    \E r \in Turns :
        /\ req[r].pc = "done"
        /\ req[r].filename = None
        /\ req[r].prompt = "What is LLM for beginners"
        /\ req[r].route = "RecommendationSearch"

-----------------------------------------------------------------------------
InferCalled == fnOut.fn = "get_ollama_response"
AlwaysFails == \A i \in 1..MaxRetries : fnIn.outs[i].kind = "fail"

\* C4 as stated: for any attempt count, against a transport that fails on every
\* attempt, get_ollama_response makes exactly that many attempts, returns the one
\* degradation string and raises nothing.
C4_AsStated ==
    (InferCalled /\ AlwaysFails) =>
        /\ fnOut.value.kind = "return"
        /\ fnOut.value.posts = fnIn.retries
        /\ fnOut.value.text = ConnectionTroubleMsg

\* C4 amended: against a transport that fails on every attempt, for an attempt
\* count of 1 or more get_ollama_response makes exactly that many attempts and
\* returns the connection-trouble string; for a count of 0 or less it makes no
\* attempt and returns the other fixed string ("failed to respond after several
\* attempts"); in both cases nothing is raised.
C4_Amended ==
    (InferCalled /\ AlwaysFails) =>
        /\ fnOut.value.kind = "return"
        /\ fnIn.retries >= 1 =>
              /\ fnOut.value.posts = fnIn.retries
              /\ fnOut.value.text = ConnectionTroubleMsg
        /\ fnIn.retries <= 0 =>
              /\ fnOut.value.posts = 0
              /\ fnOut.value.text = NoResponseMsg

C4_Witness ==
    /\ InferCalled
    /\ AlwaysFails
    /\ fnIn.retries = DefaultRetries
    /\ fnOut.value.posts = DefaultRetries
    /\ fnOut.value.text = ConnectionTroubleMsg

-----------------------------------------------------------------------------
Finished(r) == req[r].pc \in {"done", "closed"}

Concurrent(r1, r2) == r2 \in req[r1].overlap \/ r1 \in req[r2].overlap

PairAt(h, i, r) == h[i] = Msg(r, "user") /\ h[i + 1] = Msg(r, "bot")
HasPair(h, r) == \E i \in 1..(Len(h) - 1) : PairAt(h, i, r)

\* C5: when two turns of one user are in flight together, after both have
\* finished the persisted conversation of that user holds all four messages, each
\* turn's user message immediately followed by its bot message.
C5_NoLostUpdate ==
    \A r1, r2 \in Turns :
        (/\ r1 # r2
         /\ Finished(r1) /\ Finished(r2)
         /\ req[r1].user_id = req[r2].user_id
         /\ Concurrent(r1, r2)
         /\ \A q \in Turns \ {r1, r2} : req[q].pc \in {"idle", "pending"})
        => /\ HasPair(Held(disk, req[r1].user_id), r1)
           /\ HasPair(Held(disk, req[r1].user_id), r2)

-----------------------------------------------------------------------------
-----------------------------------------------------------------------------
\* C7: the conversation held for a user after a turn has the conversation held
\* before the turn as a prefix, also when reading or writing the file fails.
C7_Monotonic ==
    \A r \in Turns :
        req[r].pc = "done" =>
            /\ IsPrefix(req[r].prior, req[r].returned)
            /\ IsPrefix(req[r].prior, Held(disk, req[r].user_id))

-----------------------------------------------------------------------------
NonBlank(s) == \E i \in 1..Len(s) : ~IsSpace(CharAt(s, i))

BotMessages(h, r) == {i \in 1..Len(h) : h[i] = Msg(r, "bot")}

C8_WitnessRaise ==
    \E r \in Turns :
        /\ req[r].pc = "done"
        /\ req[r].result.kind = "raise"
        /\ req[r].final_response = GenericApology

-----------------------------------------------------------------------------
SearchCalled == fnOut.fn = "search_local_models"

QueryWords(q) == {w \in {Split(Lower(q))[i] : i \in 1..Len(Split(Lower(q)))} : Len(w) > 2}

TagMatches(row, q) ==
    /\ row.use_case_tags # None
    /\ \E w \in QueryWords(q) : Contains(Lower(row.use_case_tags), w)

RECURSIVE MatchingRows(_, _, _)
MatchingRows(df, q, i) ==
    IF i > Len(df) THEN <<>>
    ELSE (IF TagMatches(df[i], q) THEN <<i>> ELSE <<>>) \o MatchingRows(df, q, i + 1)

\* C9: with a loaded catalog search_local_models selects exactly the rows whose
\* tag field contains, case-insensitively, a query word longer than 2 (none when
\* the query has no such word) and shows at most the first 3 in row order; with a
\* catalog that was not loaded it returns the catalog-missing message.
C9_SearchSelection ==
    SearchCalled =>
        IF fnIn.df = <<>>
        THEN fnOut.value.kind = "return" /\ fnOut.value.text = CatalogMissingMsg
        ELSE /\ fnOut.value.kind = "return"
             /\ fnOut.value.selected = MatchingRows(fnIn.df, fnIn.prompt, 1)
             /\ fnOut.value.shown = TopN(MatchingRows(fnIn.df, fnIn.prompt, 1), 3)
             /\ fnOut.value.selected = <<>> <=> fnOut.value.text = NoMatchMsg

-----------------------------------------------------------------------------
DefinitionalPhrases ==
    {"what is llm", "what is ai", "artificial intelligence", "how does ai work"}

\* C10: a turn without attachment whose text fails the recommendation test and
\* contains a definitional phrasing is answered by the education branch, before
\* the identity, greeting, thanks and farewell replies and before the web-search
\* decision.
C10_EducationFirst ==
    \A r \in Turns :
        (/\ Dispatched(r)
         /\ req[r].filename = None
         /\ ~RecommendationIntent(Lower(req[r].prompt))
         /\ HasOneOf(Lower(req[r].prompt), DefinitionalPhrases))
        => req[r].branch = "education"

-----------------------------------------------------------------------------
Analyzed == fnOut.fn = "analyze_use_case"

CategoryOrder ==
    <<"text_generation", "code_generation", "question_answering", "summarization",
      "translation">>
CategoryKeywords ==
    [ text_generation |-> {"generate", "write", "create", "content", "article", "story"},
      code_generation |-> {"code", "program", "develop", "script", "function", "debug"},
      question_answering |-> {"answer", "explain", "help", "question", "support", "faq"},
      summarization |-> {"summarize", "summary", "brief", "overview", "digest"},
      translation |-> {"translate", "language", "convert", "localize"} ]

KeywordCount(category, text) ==
    Cardinality({k \in CategoryKeywords[category] : Contains(Lower(text), k)})

HighestCount(text) ==
    CHOOSE m \in {KeywordCount(CategoryOrder[i], text) : i \in 1..Len(CategoryOrder)} :
        \A i \in 1..Len(CategoryOrder) : KeywordCount(CategoryOrder[i], text) <= m

Leaders(text) ==
    {i \in 1..Len(CategoryOrder) :
        KeywordCount(CategoryOrder[i], text) = HighestCount(text)}

\* C11 as stated: analyze_use_case returns the category with the highest keyword
\* count; when several categories tie for the highest count, and when every
\* count is zero, it returns text_generation.
C11_AsStated ==
    Analyzed =>
        IF HighestCount(fnIn.text) = 0 \/ Cardinality(Leaders(fnIn.text)) > 1
        THEN fnOut.value = "text_generation"
        ELSE \E i \in Leaders(fnIn.text) : fnOut.value = CategoryOrder[i]

\* C11 amended: analyze_use_case returns the category with the highest keyword
\* count; when several categories tie for the highest count it returns the tied
\* category that comes first in the keyword table's order (text_generation,
\* code_generation, question_answering, summarization, translation), which is
\* text_generation only when text_generation is among the tied; when every count
\* is zero it returns text_generation.
C11_Amended ==
    Analyzed =>
        IF HighestCount(fnIn.text) = 0
        THEN fnOut.value = "text_generation"
        ELSE \E i \in Leaders(fnIn.text) :
                /\ \A j \in Leaders(fnIn.text) : i <= j
                /\ fnOut.value = CategoryOrder[i]

C11_Witness ==
    /\ Analyzed
    /\ fnIn.text = "code explain"
    /\ Cardinality(Leaders(fnIn.text)) = 2
    /\ fnOut.value = "code_generation"

-----------------------------------------------------------------------------
InTableOf(rec, category) ==
    /\ category \in DOMAIN model_database
    /\ \E i \in 1..Len(model_database[category]) :
          /\ model_database[category][i].name = rec.name
          /\ model_database[category][i].score = rec.score

\* C12: for every text recommend_models returns exactly 3 recommendations, so
\* generate_response never gives its no-recommendations message, and every
\* returned entry is an entry of the table of the category named in its use_case
\* field, also for texts classified as summarization or translation.
C12_ThreeOfReportedCategory ==
    /\ Recommended =>
          /\ Len(fnOut.value) = 3
          /\ \A i \in 1..Len(fnOut.value) :
                InTableOf(fnOut.value[i], fnOut.value[i].use_case)
    /\ fnOut.fn = "generate_response" =>
          /\ fnOut.value.kind = "blocks"
          /\ Len(fnOut.value.blocks) = 3

\* the part of C12 that the code keeps: three recommendations, never the
\* no-recommendations message
C12_AlwaysThree ==
    /\ Recommended => Len(fnOut.value) = 3
    /\ fnOut.fn = "generate_response" =>
          fnOut.value.kind = "blocks" /\ Len(fnOut.value.blocks) = 3

=============================================================================
